---- MODULE Spec2Model ----
(***************************************************************************)
(* A model of builtin/show-ref.c: the pattern matcher (show_ref), the ref  *)
(* formatter (show_one), the verify resolver (cmd_show_ref__verify), the   *)
(* exclusion filter (cmd_show_ref__exclude_existing) and the driver        *)
(* (cmd_show_ref).                                                         *)
(*                                                                         *)
(* C strings are sequences of one-character strings.  A NULL char pointer  *)
(* is the empty tuple and a non-NULL pointer to the string s is <<s>>.     *)
(***************************************************************************)
EXTENDS Integers, Sequences, FiniteSets, TLC

(***************************************************************************)
(* Bounds of the model.                                                    *)
(***************************************************************************)
MaxArgs == 2
MaxLines == 2

\* char buf[1024] of cmd_show_ref__exclude_existing
BufSize == 1024

(***************************************************************************)
(* String literals of the program and of the inputs.                       *)
(***************************************************************************)
NULL == <<>>
NL == "\n"
HEAD == <<"H", "E", "A", "D">>
REFS_PREFIX == <<"r", "e", "f", "s", "/">>
HEADS_PREFIX == <<"r", "e", "f", "s", "/", "h", "e", "a", "d", "s", "/">>
TAGS_PREFIX == <<"r", "e", "f", "s", "/", "t", "a", "g", "s", "/">>
PEEL_MARK == <<"^", "{", "}">>

R_main == <<"r", "e", "f", "s", "/", "h", "e", "a", "d", "s", "/", "m", "a", "i", "n">>
R_domain == <<"r", "e", "f", "s", "/", "h", "e", "a", "d", "s", "/", "d", "o", "m", "a", "i", "n">>
R_v1 == <<"r", "e", "f", "s", "/", "t", "a", "g", "s", "/", "v", "1">>
R_note == <<"r", "e", "f", "s", "/", "n", "o", "t", "e", "s", "/", "m", "a", "i", "n">>
R_dev == <<"r", "e", "f", "s", "/", "h", "e", "a", "d", "s", "/", "d", "e", "v">>
R_gone == <<"r", "e", "f", "s", "/", "h", "e", "a", "d", "s", "/", "d", "o", "e", "s", "n", "o", "t", "e", "x", "i", "s", "t">>
ORIG_HEAD == <<"O", "R", "I", "G", "_", "H", "E", "A", "D">>

P_main == <<"m", "a", "i", "n">>
P_ain == <<"a", "i", "n">>
P_heads_main == <<"h", "e", "a", "d", "s", "/", "m", "a", "i", "n">>
P_long == <<"x", "r", "e", "f", "s", "/", "h", "e", "a", "d", "s", "/", "m", "a", "i", "n">>

L_topic_peeled == <<"a", "b", "c", "1", "2", "3", " ", "r", "e", "f", "s", "/", "h", "e", "a", "d", "s", "/", "t", "o", "p", "i", "c", "^", "{", "}">>
L_invalid == <<"n", "o", "t", " ", "a", " ", "v", "a", "l", "i", "d", " ", "r", "e", "f", " ", "n", "a", "m", "e">>
L_blank == <<" ">>
L_bad_tilde == <<"r", "e", "f", "s", "/", "h", "e", "a", "d", "s", "/", "a", "~", "1">>

OID_main == <<"a", "b", "c", "d", "1", "2", "3", "4">>
OID_domain == <<"0", "d", "0", "e", "0", "f", "0", "0">>
OID_v1 == <<"7", "a", "6", "7", "a", "6", "7", "a">>
OID_v1_peeled == <<"c", "0", "f", "f", "e", "e", "0", "0">>
OID_note == <<"5", "e", "5", "e", "5", "e", "5", "e">>
OID_other == <<"0", "0", "0", "0", "0", "0", "0", "1">>

(***************************************************************************)
(* Generic string helpers (strlen, strcmp, starts_with, memcmp on a tail). *)
(***************************************************************************)
Min(a, b) == IF a < b THEN a ELSE b

SeqsUpTo(S, n) == UNION {[1..k -> S] : k \in 0..n}

starts_with(str, prefix) ==
    /\ Len(prefix) <= Len(str)
    /\ SubSeq(str, 1, Len(prefix)) = prefix

(***************************************************************************)
(* The repository: the reference store and the object store.               *)
(***************************************************************************)
\* every name the reference store of the model may hold, in the store's
\* enumeration order (sorted by name)
RefOrder == <<R_domain, R_main, R_note, R_v1>>

\* the object a name resolves to; HEAD is a symbolic ref to refs/heads/main
OidOf(refname) ==
    CASE refname = R_main -> OID_main
      [] refname = HEAD -> OID_main
      [] refname = R_domain -> OID_domain
      [] refname = R_v1 -> OID_v1
      [] refname = R_note -> OID_note
      [] OTHER -> OID_other

VARIABLES
    \* parsed options (file-scope statics and exclude_existing_options)
    argv, show_head, quiet, deref_tags, hash_only, heads_only, tags_only,
    verify, opts,
    \* the repository
    local_refs, head_ok, missing,
    \* program state
    pc, todo, found_match, refs_i, existing_refs, stdin,
    out, warnings, exit_code, fatal,
    \* history of the run
    input, visited, shown, owner, lineno, log

optvars == <<argv, show_head, quiet, deref_tags, hash_only, heads_only,
             tags_only, verify, opts>>
repovars == <<local_refs, head_ok, missing, input>>
vars == <<argv, show_head, quiet, deref_tags, hash_only, heads_only, tags_only,
          verify, opts, local_refs, head_ok, missing, pc, todo, found_match,
          refs_i, existing_refs, stdin, out, warnings, exit_code, fatal,
          input, visited, shown, owner, lineno, log>>

\* exit status while the process has not exited, and the status of die()
RUNNING == -1
DIE_STATUS == 128

(***************************************************************************)
(* The collaborators, as far as show-ref.c uses them.                      *)
(***************************************************************************)
\* repo_has_object_file(the_repository, oid)
repo_has_object_file(oid) == oid \notin missing

\* repo_find_unique_abbrev(the_repository, oid, abbrev) with abbrev unset
repo_find_unique_abbrev(oid) == oid

\* peel_iterated_oid(oid, &peeled) returns 0 when the object is a tag
peel_ok(oid) == oid = OID_v1

peel_iterated_oid(oid) == OID_v1_peeled

\* read_ref(name, &oid) returns 0 when the store resolves the name
read_ref_ok(refname) ==
    \/ refname \in local_refs
    \/ refname = HEAD /\ head_ok

\* the refs for_each_fullref_in(prefix) / for_each_ref hands to the callback
for_each_fullref_in(prefix) ==
    LET InScope(r) == r \in local_refs /\ starts_with(r, prefix)
    IN  SelectSeq(RefOrder, InScope)

for_each_ref == for_each_fullref_in(REFS_PREFIX)

\* head_ref calls back once when HEAD resolves
head_ref == IF head_ok THEN <<HEAD>> ELSE <<>>

(***************************************************************************)
(* show_one: the lines it prints when it does not die.                     *)
(***************************************************************************)
\* show_one_dies with the quiet test ahead of the object test
show_one_dies_unless_quiet(oid) == ~quiet /\ ~repo_has_object_file(oid)

show_one_dies(oid) == ~repo_has_object_file(oid)

show_one_lines(refname, oid) ==
    IF quiet THEN <<>>
    ELSE LET hex == repo_find_unique_abbrev(oid)
             first == IF hash_only THEN hex ELSE hex \o <<" ">> \o refname
             peeled == repo_find_unique_abbrev(peel_iterated_oid(oid))
                         \o <<" ">> \o refname \o PEEL_MARK
         IN  IF ~deref_tags THEN <<first>>
             ELSE IF peel_ok(oid) THEN <<first, peeled>>
             ELSE <<first>>

\* the effect of a call show_one(refname, oid) followed by the caller's next
\* position nextpc
show_one(refname, oid, nextpc) ==
    /\ shown' = Append(shown, refname)
    /\ warnings' = warnings
    /\ IF show_one_dies(oid)
       THEN /\ fatal' = "bad ref"
            /\ exit_code' = DIE_STATUS
            /\ pc' = "done"
            /\ UNCHANGED <<out, owner>>
       ELSE /\ out' = out \o show_one_lines(refname, oid)
            /\ owner' = owner \o [i \in 1..Len(show_one_lines(refname, oid))
                                    |-> Len(shown) + 1]
            /\ pc' = nextpc
            /\ UNCHANGED <<fatal, exit_code>>

(***************************************************************************)
(* show_ref: the per-ref callback of pattern mode.                         *)
(***************************************************************************)
\* pattern_match without the test of the character before the suffix
pattern_match_any_suffix(m, refname) ==
    LET len == Len(m)
        reflen == Len(refname)
    IN  /\ ~(len > reflen)
        /\ SubSeq(refname, reflen - len + 1, reflen) = m

\* one iteration of the while loop over data->patterns
pattern_match(m, refname) ==
    LET len == Len(m)
        reflen == Len(refname)
    IN  /\ ~(len > reflen)
        /\ SubSeq(refname, reflen - len + 1, reflen) = m
        /\ \/ len = reflen
           \/ refname[reflen - len] = "/"

\* show_ref_match with the HEAD test after the pattern loop
show_ref_match_head_last(refname, patterns) ==
    \/ patterns = NULL
    \/ \E i \in 1..Len(patterns) : pattern_match(patterns[i], refname)

\* whether control reaches the label match
show_ref_match(refname, patterns) ==
    \/ show_head /\ refname = HEAD
    \/ patterns = NULL
    \/ \E i \in 1..Len(patterns) : pattern_match(patterns[i], refname)

\* show_ref_data.patterns as cmd_show_ref__patterns sets it
data_patterns == IF argv # <<>> THEN argv ELSE NULL

show_ref ==
    /\ pc = "patterns"
    /\ todo # <<>>
    /\ LET refname == Head(todo)
       IN  /\ todo' = Tail(todo)
           /\ visited' = Append(visited, refname)
           /\ IF show_ref_match(refname, data_patterns)
              THEN /\ found_match' = found_match + 1
                   /\ show_one(refname, OidOf(refname), "patterns")
              ELSE UNCHANGED <<found_match, shown, out, owner, warnings,
                               fatal, exit_code, pc>>
    /\ UNCHANGED <<optvars, repovars, refs_i, existing_refs, stdin,
                   lineno, log>>

\* the enumerations cmd_show_ref__patterns starts, in order
patterns_enumeration ==
    (IF show_head THEN head_ref ELSE <<>>)
    \o (IF heads_only \/ tags_only
        THEN (IF heads_only THEN for_each_fullref_in(HEADS_PREFIX) ELSE <<>>)
             \o (IF tags_only THEN for_each_fullref_in(TAGS_PREFIX) ELSE <<>>)
        ELSE for_each_ref)

\* patterns_status that reports success always
patterns_status_always_zero(found) == 0

\* the value cmd_show_ref__patterns returns
patterns_status(found) == IF found = 0 THEN 1 ELSE 0

\* return of cmd_show_ref__patterns
patterns_return ==
    /\ pc = "patterns"
    /\ todo = <<>>
    /\ exit_code' = patterns_status(found_match)
    /\ pc' = "done"
    /\ UNCHANGED <<optvars, repovars, todo, found_match, refs_i,
                   existing_refs, stdin, out, warnings, fatal, visited,
                   shown, owner, lineno, log>>

(***************************************************************************)
(* cmd_show_ref__verify                                                    *)
(***************************************************************************)
\* verify_valid without the test of the reserved prefix
verify_valid_resolve_only(name) == read_ref_ok(name)

\* the condition under which a name is shown
verify_valid(name) ==
    /\ starts_with(name, REFS_PREFIX) \/ name = HEAD
    /\ read_ref_ok(name)

verify_step ==
    /\ pc = "verify"
    /\ refs_i <= Len(argv)
    /\ LET name == argv[refs_i]
       IN  /\ visited' = Append(visited, name)
           /\ IF verify_valid(name)
              THEN /\ show_one(name, OidOf(name), "verify")
                   /\ refs_i' = IF show_one_dies(OidOf(name))
                                THEN refs_i ELSE refs_i + 1
              ELSE IF ~quiet
              THEN /\ fatal' = "not a valid ref"
                   /\ exit_code' = DIE_STATUS
                   /\ pc' = "done"
                   /\ UNCHANGED <<refs_i, shown, out, owner, warnings>>
              ELSE /\ exit_code' = 1
                   /\ pc' = "done"
                   /\ UNCHANGED <<refs_i, shown, out, owner, warnings, fatal>>
    /\ UNCHANGED <<optvars, repovars, todo, found_match, existing_refs,
                   stdin, lineno, log>>

verify_return ==
    /\ pc = "verify"
    /\ refs_i > Len(argv)
    /\ exit_code' = 0
    /\ pc' = "done"
    /\ UNCHANGED <<optvars, repovars, todo, found_match, refs_i,
                   existing_refs, stdin, out, warnings, fatal, visited,
                   shown, owner, lineno, log>>

(***************************************************************************)
(* cmd_show_ref__exclude_existing                                          *)
(***************************************************************************)
\* isspace() of the C locale
isspace(c) == c \in {" ", "\t", "\n", "\r"}

\* the characters check_refname_format rejects anywhere in a name
BadRefChars == {" ", "\t", "\n", "\r", "~", "^", ":", "?", "*", "[", "\\"}

\* check_refname_format(ref, 0) returns 0: at least two components, none
\* empty, none starting with ".", no "..", no "@{", no rejected character,
\* no trailing "."
check_refname_format_ok(ref) ==
    LET n == Len(ref)
    IN  /\ n > 0
        /\ ref[1] # "/" /\ ref[n] # "/" /\ ref[n] # "."
        /\ ref[1] # "."
        /\ \E i \in 1..n : ref[i] = "/"
        /\ \A i \in 1..n : ref[i] \notin BadRefChars
        /\ \A i \in 1..(n - 1) :
              /\ ~(ref[i] = "/" /\ ref[i + 1] \in {"/", "."})
              /\ ~(ref[i] = "." /\ ref[i + 1] = ".")
              /\ ~(ref[i] = "@" /\ ref[i + 1] = "{")

\* fgets_len filling all of buf, with no room for the terminating NUL
fgets_len_whole_buf(stream) ==
    LET limit == Min(Len(stream), BufSize)
        nls == {i \in 1..limit : stream[i] = NL}
    IN  IF nls = {} THEN limit
        ELSE CHOOSE i \in nls : \A j \in nls : i <= j

\* number of bytes fgets(buf, sizeof(buf), stdin) stores from the stream:
\* through the first newline, at most sizeof(buf) - 1
fgets_len(stream) ==
    LET limit == Min(Len(stream), BufSize - 1)
        nls == {i \in 1..limit : stream[i] = NL}
    IN  IF nls = {} THEN limit
        ELSE CHOOSE i \in nls : \A j \in nls : i <= j

\* buf after the newline is cut off
chomp(buf) ==
    IF Len(buf) > 0 /\ buf[Len(buf)] = NL
    THEN SubSeq(buf, 1, Len(buf) - 1) ELSE buf

\* buf after a trailing "^{}" is cut off
strip_peel(buf) ==
    IF 3 <= Len(buf) /\ SubSeq(buf, Len(buf) - 2, Len(buf)) = PEEL_MARK
    THEN SubSeq(buf, 1, Len(buf) - 3) ELSE buf

\* the string ref points to after the backward scan for whitespace
ref_token(buf) ==
    LET ws == {i \in 1..Len(buf) : isspace(buf[i])}
        last == IF ws = {} THEN 0
                ELSE CHOOSE i \in ws : \A j \in ws : j <= i
    IN  SubSeq(buf, last + 1, Len(buf))

\* head_match that never rejects a line
head_match_all(ref) == TRUE

\* the line passes the test on opts->pattern
head_match(ref) ==
    \/ opts.pattern = NULL
    \/ /\ ~(Len(ref) < Len(opts.pattern[1]))
       /\ SubSeq(ref, 1, Len(opts.pattern[1])) = opts.pattern[1]

\* printed_line of a buf that keeps the "^{}" it was read with
printed_line_unstripped(buf) == chomp(buf)

\* what printf("%s\n", buf) writes, without the newline
printed_line(buf) == strip_peel(chomp(buf))

\* add_existing that leaves the list as it is
add_existing_nothing ==
    /\ pc = "exclude"
    /\ todo # <<>>
    /\ todo' = Tail(todo)
    /\ visited' = Append(visited, Head(todo))
    /\ UNCHANGED <<optvars, repovars, pc, found_match, refs_i, stdin, out,
                   warnings, exit_code, fatal, shown, owner, lineno, log,
                   existing_refs>>

\* the callback of for_each_ref(add_existing, &existing_refs)
add_existing ==
    /\ pc = "exclude"
    /\ todo # <<>>
    /\ existing_refs' = existing_refs \cup {Head(todo)}
    /\ todo' = Tail(todo)
    /\ visited' = Append(visited, Head(todo))
    /\ UNCHANGED <<optvars, repovars, pc, found_match, refs_i, stdin, out,
                   warnings, exit_code, fatal, shown, owner, lineno, log>>

\* exclude_line with die() in the place of warning()
exclude_line_die ==
    /\ pc = "exclude"
    /\ todo = <<>>
    /\ stdin # <<>>
    /\ \E n \in {fgets_len(stdin)} :
       \E buf \in {SubSeq(stdin, 1, n)} :
       \E ref \in {ref_token(strip_peel(chomp(buf)))} :
       \E warn \in {head_match(ref) /\ ~check_refname_format_ok(ref)} :
       \E emit \in {/\ head_match(ref)
                     /\ check_refname_format_ok(ref)
                     /\ ref \notin existing_refs} :
           /\ stdin' = SubSeq(stdin, n + 1, Len(stdin))
           /\ warnings' = warnings
           /\ fatal' = IF warn THEN "ref ignored" ELSE fatal
           /\ exit_code' = IF warn THEN DIE_STATUS ELSE exit_code
           /\ pc' = IF warn THEN "done" ELSE pc
           /\ out' = IF emit THEN Append(out, printed_line(buf)) ELSE out
           /\ lineno' = IF buf[n] = NL THEN lineno + 1 ELSE lineno
           /\ log' = Append(log, [line |-> lineno, buf |-> buf,
                                  emitted |-> emit, warned |-> warn])
    /\ UNCHANGED <<optvars, repovars, todo, found_match, refs_i,
                   existing_refs, visited, shown, owner>>

\* one iteration of while (fgets(buf, sizeof(buf), stdin)); n, buf, ref, warn
\* and emit are the values of the iteration, each computed once
exclude_line ==
    /\ pc = "exclude"
    /\ todo = <<>>
    /\ stdin # <<>>
    /\ \E n \in {fgets_len(stdin)} :
       \E buf \in {SubSeq(stdin, 1, n)} :
       \E ref \in {ref_token(strip_peel(chomp(buf)))} :
       \E warn \in {head_match(ref) /\ ~check_refname_format_ok(ref)} :
       \E emit \in {/\ head_match(ref)
                     /\ check_refname_format_ok(ref)
                     /\ ref \notin existing_refs} :
           /\ stdin' = SubSeq(stdin, n + 1, Len(stdin))
           /\ warnings' = IF warn THEN Append(warnings, ref) ELSE warnings
           /\ out' = IF emit THEN Append(out, printed_line(buf)) ELSE out
           /\ lineno' = IF buf[n] = NL THEN lineno + 1 ELSE lineno
           /\ log' = Append(log, [line |-> lineno, buf |-> buf,
                                  emitted |-> emit, warned |-> warn])
    /\ UNCHANGED <<optvars, repovars, pc, todo, found_match, refs_i,
                   existing_refs, exit_code, fatal, visited, shown, owner>>

\* end of input: string_list_clear and return 0
exclude_return ==
    /\ pc = "exclude"
    /\ todo = <<>>
    /\ stdin = <<>>
    /\ existing_refs' = {}
    /\ exit_code' = 0
    /\ pc' = "done"
    /\ UNCHANGED <<optvars, repovars, todo, found_match, refs_i, stdin, out,
                   warnings, fatal, visited, shown, owner, lineno, log>>

(***************************************************************************)
(* cmd_show_ref: the driver selects exactly one mode.                      *)
(***************************************************************************)
start_exclude ==
    /\ pc = "start"
    /\ opts.enabled
    /\ pc' = "exclude"
    /\ todo' = for_each_ref
    /\ UNCHANGED <<optvars, repovars, found_match, refs_i, existing_refs,
                   stdin, out, warnings, exit_code, fatal, visited, shown,
                   owner, lineno, log>>

start_verify ==
    /\ pc = "start"
    /\ ~opts.enabled
    /\ verify
    /\ IF argv = <<>>
       THEN /\ fatal' = "--verify requires a reference"
            /\ exit_code' = DIE_STATUS
            /\ pc' = "done"
       ELSE /\ pc' = "verify"
            /\ UNCHANGED <<fatal, exit_code>>
    /\ UNCHANGED <<optvars, repovars, todo, found_match, refs_i,
                   existing_refs, stdin, out, warnings, visited, shown,
                   owner, lineno, log>>

start_patterns ==
    /\ pc = "start"
    /\ ~opts.enabled
    /\ ~verify
    /\ pc' = "patterns"
    /\ found_match' = 0
    /\ todo' = patterns_enumeration
    /\ UNCHANGED <<optvars, repovars, refs_i, existing_refs, stdin, out,
                   warnings, exit_code, fatal, visited, shown, owner,
                   lineno, log>>

(***************************************************************************)
(* Initial states: the options, the repository and the standard input of   *)
(* one invocation.                                                         *)
(***************************************************************************)
RECURSIVE Concat(_)
Concat(ss) == IF ss = <<>> THEN <<>> ELSE Head(ss) \o Concat(Tail(ss))

InitProgram ==
    /\ pc = "start"
    /\ todo = <<>>
    /\ found_match = 0
    /\ refs_i = 1
    /\ existing_refs = {}
    /\ stdin = Concat(input)
    /\ out = <<>>
    /\ warnings = <<>>
    /\ exit_code = RUNNING
    /\ fatal = ""
    /\ visited = <<>>
    /\ shown = <<>>
    /\ owner = <<>>
    /\ lineno = 1
    /\ log = <<>>

\* the repositories of the model
Repositories ==
    {{}, {R_main}, {R_main, R_domain, R_v1}, {R_main, R_domain, R_v1, R_note},
     {R_main, ORIG_HEAD}}

MissingSets == {{}, {OID_main}, {OID_v1}}

PatternArgs == {P_main, P_ain, P_heads_main, P_long, R_main}

InitPatterns ==
    /\ argv \in SeqsUpTo(PatternArgs, MaxArgs)
    /\ show_head \in BOOLEAN
    /\ quiet \in BOOLEAN
    /\ deref_tags \in BOOLEAN
    /\ hash_only \in BOOLEAN
    /\ heads_only \in BOOLEAN
    /\ tags_only \in BOOLEAN
    /\ verify = FALSE
    /\ opts = [enabled |-> FALSE, pattern |-> NULL]
    /\ local_refs \in Repositories
    /\ head_ok \in BOOLEAN
    /\ head_ok => R_main \in local_refs
    /\ missing \in MissingSets
    /\ input = <<>>
    /\ InitProgram

NextPatterns == start_patterns \/ show_ref \/ patterns_return

SpecPatterns == InitPatterns /\ [][NextPatterns]_vars

VerifyArgs == {R_main, R_v1, R_gone, HEAD, ORIG_HEAD, P_main}

InitVerify ==
    /\ argv \in SeqsUpTo(VerifyArgs, MaxArgs)
    /\ show_head = FALSE
    /\ quiet \in BOOLEAN
    /\ deref_tags \in BOOLEAN
    /\ hash_only \in BOOLEAN
    /\ heads_only = FALSE
    /\ tags_only = FALSE
    /\ verify = TRUE
    /\ opts = [enabled |-> FALSE, pattern |-> NULL]
    /\ local_refs \in Repositories
    /\ head_ok \in BOOLEAN
    /\ head_ok => R_main \in local_refs
    /\ missing \in MissingSets
    /\ input = <<>>
    /\ InitProgram

NextVerify == start_verify \/ verify_step \/ verify_return

SpecVerify == InitVerify /\ [][NextVerify]_vars

\* a well-formed line of n bytes
Pad(n) == [i \in 1..n |-> IF i <= Len(HEADS_PREFIX) THEN HEADS_PREFIX[i] ELSE "a"]

ShortLines ==
    {R_main, R_dev, R_v1, L_topic_peeled, L_invalid, <<>>, L_blank,
     L_bad_tilde}

LongLines == {Pad(BufSize - 2), Pad(BufSize - 1)}

ExcludePatterns == {NULL, <<HEADS_PREFIX>>}

\* the lines of the standard input, each with its terminator except,
\* possibly, a non-empty last line
Inputs ==
    LET Lines == SeqsUpTo(ShortLines \cup LongLines, MaxLines)
    IN  {[i \in 1..Len(ls) |-> Append(ls[i], NL)] : ls \in Lines}
        \cup {[i \in 1..Len(ls) |->
                  IF i < Len(ls) THEN Append(ls[i], NL) ELSE ls[i]] :
                ls \in {l \in Lines : l # <<>> /\ l[Len(l)] # <<>>}}

InitExclude ==
    /\ argv = <<>>
    /\ show_head = FALSE
    /\ quiet = FALSE
    /\ deref_tags = FALSE
    /\ hash_only = FALSE
    /\ heads_only = FALSE
    /\ tags_only = FALSE
    /\ verify = FALSE
    /\ opts \in [enabled : {TRUE}, pattern : ExcludePatterns]
    /\ local_refs \in {{}, {R_main, R_v1}}
    /\ head_ok = (R_main \in local_refs)
    /\ missing = {}
    /\ input \in Inputs
    /\ InitProgram

NextExclude == start_exclude \/ add_existing \/ exclude_line \/ exclude_return

SpecExclude == InitExclude /\ [][NextExclude]_vars

\* the loop of the exclusion filter is sequential code: it always takes its
\* next step
FairExclude == SpecExclude /\ WF_vars(NextExclude)

\* pattern mode and verify mode together
InitShow == InitPatterns \/ InitVerify

NextShow == NextPatterns \/ NextVerify

SpecShow == InitShow /\ [][NextShow]_vars

(***************************************************************************)
(* Vocabulary of the properties.                                           *)
(***************************************************************************)
InSeq(x, s) == \E i \in 1..Len(s) : s[i] = x

\* P occupies the last Len(P) bytes of R, and it is all of R or the byte of
\* R before it is "/"
BoundarySuffix(P, R) ==
    \E k \in 0..Len(R) :
        /\ k + Len(P) = Len(R)
        /\ \A i \in 1..Len(P) : R[k + i] = P[i]
        /\ k = 0 \/ R[k] = "/"

\* a name verify mode accepts
ValidName(name) ==
    /\ \/ Len(name) >= 5 /\ \A i \in 1..5 : name[i] = REFS_PREFIX[i]
       \/ name = HEAD
    /\ \/ name \in local_refs
       \/ name = HEAD /\ head_ok

\* index of the first invalid positional name, 0 when all are valid
FirstInvalid ==
    IF \A i \in 1..Len(argv) : ValidName(argv[i]) THEN 0
    ELSE CHOOSE i \in 1..Len(argv) :
            /\ ~ValidName(argv[i])
            /\ \A j \in 1..(i - 1) : ValidName(argv[j])

(***************************************************************************)
(* C1.  Pattern mode with a non-empty pattern list and --head off: a ref   *)
(* the enumeration hands to show_ref is reported (passed to show_one) if   *)
(* and only if some pattern is a suffix of its name that is the whole name *)
(* or starts right after a "/".                                            *)
(***************************************************************************)
C1_PatternMatcher ==
    (~verify /\ ~opts.enabled /\ ~show_head /\ argv # <<>>) =>
        \A i \in 1..Len(visited) :
            InSeq(visited[i], shown)
            <=> \E k \in 1..Len(argv) : BoundarySuffix(argv[k], visited[i])

C1_Witness ==
    /\ pc = "done" /\ ~show_head /\ argv = <<P_ain, P_main>>
    /\ InSeq(R_domain, visited) /\ InSeq(R_note, visited)
    /\ shown = <<R_main, R_note>>

(***************************************************************************)
(* C2.  With --head, HEAD is matched, counted and passed to show_one       *)
(* whatever the patterns are; with an empty pattern list every enumerated  *)
(* ref is matched.  The tally counts exactly the refs passed to show_one.  *)
(***************************************************************************)
C2_HeadAndEmptyList ==
    (pc \in {"patterns", "done"}) =>
        /\ found_match = Len(shown)
        /\ show_head =>
              /\ head_ok => InSeq(HEAD, visited) \/ InSeq(HEAD, todo)
              /\ InSeq(HEAD, visited) => InSeq(HEAD, shown) /\ found_match >= 1
        /\ argv = <<>> => shown = visited

C2_Witness ==
    /\ pc = "done" /\ show_head /\ argv = <<P_ain>>
    /\ shown = <<HEAD>> /\ found_match = 1 /\ Len(visited) > 1
    /\ exit_code = 0

(***************************************************************************)
(* C3.  As claimed: a pattern-mode or verify-mode invocation that ends     *)
(* without a fatal abort exits with 0 if at least one ref matched and with *)
(* 1 if none matched.                                                      *)
(***************************************************************************)
C3_AsClaimed ==
    (pc = "done" /\ fatal = "") =>
        /\ Len(shown) >= 1 => exit_code = 0
        /\ Len(shown) = 0 => exit_code = 1

(***************************************************************************)
(* C3, amended.  A pattern-mode invocation that ends without a fatal abort *)
(* exits with 0 if at least one ref matched and with 1 if none matched; a  *)
(* verify-mode invocation that ends without a fatal abort exits with 0 if  *)
(* every positional name is valid and with 1, under quiet, if some name is *)
(* invalid, even when names before it matched.                             *)
(***************************************************************************)
C3_ExitStatus ==
    (pc = "done" /\ fatal = "") =>
        IF verify
        THEN /\ FirstInvalid = 0 => exit_code = 0
             /\ FirstInvalid # 0 => exit_code = 1 /\ quiet
        ELSE /\ Len(shown) >= 1 => exit_code = 0
             /\ Len(shown) = 0 => exit_code = 1

C3_Witness ==
    /\ pc = "done" /\ fatal = "" /\ verify /\ quiet
    /\ argv = <<R_main, R_gone>> /\ shown = <<R_main>> /\ exit_code = 1

(***************************************************************************)
(* C4.  Verify mode takes the names in input order.  When it comes to the  *)
(* first name that does not start with "refs/" and is not "HEAD", or that  *)
(* does not resolve, it dies if quiet is off and returns 1 without dying   *)
(* if quiet is on; no name after that one is looked at.  When every name   *)
(* is valid and the invocation returns, it returns 0.                      *)
(***************************************************************************)
C4_Verify ==
    (verify /\ ~opts.enabled /\ pc \in {"verify", "done"}) =>
        /\ Len(visited) <= Len(argv)
        /\ \A i \in 1..Len(visited) : visited[i] = argv[i]
        /\ Len(shown) <= Len(visited)
        /\ \A i \in 1..Len(shown) : shown[i] = argv[i] /\ ValidName(argv[i])
        /\ FirstInvalid # 0 => Len(visited) <= FirstInvalid
        /\ (FirstInvalid # 0 /\ Len(visited) = FirstInvalid) =>
              /\ pc = "done"
              /\ Len(shown) = FirstInvalid - 1
              /\ quiet => exit_code = 1 /\ fatal = ""
              /\ ~quiet => exit_code = DIE_STATUS /\ fatal = "not a valid ref"
        /\ (FirstInvalid = 0 /\ pc = "done" /\ fatal = "") =>
              exit_code = 0 /\ visited = argv /\ shown = argv

C4_Witness ==
    /\ pc = "done" /\ verify /\ quiet
    /\ argv = <<ORIG_HEAD, R_main>> /\ ORIG_HEAD \in local_refs
    /\ R_main \in local_refs
    /\ visited = <<ORIG_HEAD>> /\ shown = <<>>
    /\ exit_code = 1 /\ fatal = ""

(***************************************************************************)
(* C9.  show_one, in pattern and in verify mode: a ref whose object is     *)
(* missing makes the invocation die before a line for that ref is written, *)
(* also under quiet; under quiet no line is written at all; a "^{}" line   *)
(* is written only with dereference set and a successful peel, and always  *)
(* directly after the line of the same ref.                                *)
(***************************************************************************)
EndsWithPeel(line) ==
    /\ Len(line) >= 3
    /\ line[Len(line) - 2] = "^" /\ line[Len(line) - 1] = "{"
    /\ line[Len(line)] = "}"

C9_Formatter ==
    /\ quiet => out = <<>>
    /\ Len(owner) = Len(out)
    /\ \A j \in 1..Len(shown) :
          IF OidOf(shown[j]) \in missing
          THEN /\ j = Len(shown)
               /\ pc = "done" /\ fatal = "bad ref" /\ exit_code = DIE_STATUS
               /\ \A k \in 1..Len(out) : owner[k] # j
          ELSE ~quiet => \E k \in 1..Len(out) :
                            /\ owner[k] = j
                            /\ ~EndsWithPeel(out[k])
                            /\ k > 1 => owner[k - 1] # j
    /\ \A k \in 1..Len(out) :
          EndsWithPeel(out[k]) =>
              /\ deref_tags
              /\ peel_ok(OidOf(shown[owner[k]]))
              /\ k > 1
              /\ owner[k - 1] = owner[k]
              /\ ~EndsWithPeel(out[k - 1])

C9_Witness ==
    /\ pc = "done" /\ quiet /\ fatal = "bad ref"
    /\ Len(shown) = 2 /\ out = <<>>

(***************************************************************************)
(* Vocabulary of the exclusion filter's properties.                        *)
(***************************************************************************)
\* input line i without its terminator
Content(i) ==
    IF Len(input[i]) > 0 /\ input[i][Len(input[i])] = NL
    THEN SubSeq(input[i], 1, Len(input[i]) - 1)
    ELSE input[i]

\* a text without one trailing "^{}"
Unpeeled(l) == IF EndsWithPeel(l) THEN SubSeq(l, 1, Len(l) - 3) ELSE l

\* first position of the token of l: no whitespace from there on, and
\* whitespace right before it
TokenStart(l) ==
    CHOOSE k \in 1..(Len(l) + 1) :
        /\ k = 1 \/ isspace(l[k - 1])
        /\ \A i \in k..Len(l) : ~isspace(l[i])

Token(l) == SubSeq(Unpeeled(l), TokenStart(Unpeeled(l)), Len(Unpeeled(l)))

PatternPasses(t) ==
    \/ opts.pattern = NULL
    \/ \E rest \in {SubSeq(t, k, Len(t)) : k \in 1..(Len(t) + 1)} :
          t = opts.pattern[1] \o rest

LocalRefNames == {r \in local_refs : starts_with(r, REFS_PREFIX)}

ShouldEmit(l) ==
    /\ PatternPasses(Token(l))
    /\ check_refname_format_ok(Token(l))
    /\ Token(l) \notin LocalRefNames

ShouldWarn(l) ==
    /\ PatternPasses(Token(l))
    /\ ~check_refname_format_ok(Token(l))

\* the loop has read all of input line i
LineDone(i) == lineno > i \/ (stdin = <<>> /\ log # <<>>)

RecordsOf(i) == {k \in 1..Len(log) : log[k].line = i}

EmittedLine(i) == \E k \in RecordsOf(i) : log[k].emitted

WarnedLine(i) == \E k \in RecordsOf(i) : log[k].warned

\* the line, with its terminator, fits buf together with the final NUL
FitsBuffer(i) == Len(input[i]) <= BufSize - 1

\* position in out of the line written for record k
OutIdx(k) == Cardinality({j \in 1..k : log[j].emitted})

\* the text of record k without its terminator
RecordText(k) ==
    IF log[k].buf[Len(log[k].buf)] = NL
    THEN SubSeq(log[k].buf, 1, Len(log[k].buf) - 1)
    ELSE log[k].buf

(***************************************************************************)
(* C5.  As claimed: every line the exclusion filter writes is the input    *)
(* line without its terminator, the trailing "^{}" still in place.         *)
(* (Stated for the lines that fit the buffer.)                             *)
(***************************************************************************)
C5_AsClaimed ==
    \A k \in 1..Len(log) :
        (log[k].emitted /\ FitsBuffer(log[k].line)) =>
            out[OutIdx(k)] = Content(log[k].line)

(***************************************************************************)
(* C5, amended.  Every line the exclusion filter writes is the record it   *)
(* was read as (the input line when that fits the buffer) without its      *)
(* terminator and without one trailing "^{}"; the part before the          *)
(* whitespace is kept.                                                     *)
(***************************************************************************)
C5_OutputLine ==
    /\ Len(out) = OutIdx(Len(log))
    /\ \A k \in 1..Len(log) :
          log[k].emitted =>
              /\ out[OutIdx(k)] = Unpeeled(RecordText(k))
              /\ FitsBuffer(log[k].line) =>
                    out[OutIdx(k)] = Unpeeled(Content(log[k].line))

C5_Witness ==
    /\ pc = "done" /\ opts.pattern = NULL
    /\ input = <<Append(L_topic_peeled, NL)>>
    /\ out = <<SubSeq(L_topic_peeled, 1, Len(L_topic_peeled) - 3)>>

(***************************************************************************)
(* C6.  As claimed: an input line is written if and only if its token      *)
(* passes the pattern test, is well formed and is not an existing ref; a   *)
(* warning is given if and only if the token passes the pattern test and   *)
(* is malformed.                                                           *)
(***************************************************************************)
C6_AsClaimed ==
    \A i \in 1..Len(input) :
        LineDone(i) =>
            /\ EmittedLine(i) <=> ShouldEmit(Content(i))
            /\ WarnedLine(i) <=> ShouldWarn(Content(i))

(***************************************************************************)
(* C6, amended.  The same, for every input line that fits the buffer       *)
(* (at most sizeof(buf) - 1 bytes with its terminator); the lines written  *)
(* are in input order.                                                     *)
(***************************************************************************)
C6_Decision ==
    /\ \A i \in 1..Len(input) :
          (LineDone(i) /\ FitsBuffer(i)) =>
              /\ EmittedLine(i) <=> ShouldEmit(Content(i))
              /\ WarnedLine(i) <=> ShouldWarn(Content(i))
    /\ Len(out) = OutIdx(Len(log))
    /\ Len(warnings) = Cardinality({k \in 1..Len(log) : log[k].warned})
    /\ \A k \in 1..Len(log) :
          /\ k > 1 => log[k - 1].line <= log[k].line
          /\ log[k].emitted => out[OutIdx(k)] = Unpeeled(RecordText(k))

C6_Witness ==
    /\ pc = "done" /\ opts.pattern = <<HEADS_PREFIX>>
    /\ input = <<Append(L_bad_tilde, NL), Append(R_dev, NL)>>
    /\ out = <<R_dev>> /\ warnings = <<L_bad_tilde>>

(***************************************************************************)
(* C7.  As claimed, in the part about malformed lines: when the filter is  *)
(* done, every malformed input line has a warning and no output.           *)
(* (Stated for the lines that fit the buffer.)                             *)
(***************************************************************************)
C7_AsClaimed ==
    pc = "done" =>
        \A i \in 1..Len(input) :
            (FitsBuffer(i) /\ ~check_refname_format_ok(Token(Content(i)))) =>
                WarnedLine(i) /\ ~EmittedLine(i)

\* the filter never dies, it returns 0 only, and it returns only when all of
\* the input is read; a malformed line that fits the buffer has no output,
\* and it has a warning exactly when it passes the pattern test
NeverAborts ==
    /\ fatal = ""
    /\ exit_code \in {RUNNING, 0}
    /\ pc = "done" =>
          /\ exit_code = 0
          /\ stdin = <<>>
          /\ Concat([k \in 1..Len(log) |-> log[k].buf]) = Concat(input)
          /\ \A i \in 1..Len(input) : RecordsOf(i) # {}
    /\ \A i \in 1..Len(input) :
          (LineDone(i) /\ FitsBuffer(i)
             /\ ~check_refname_format_ok(Token(Content(i)))) =>
              /\ ~EmittedLine(i)
              /\ WarnedLine(i) <=> PatternPasses(Token(Content(i)))

(***************************************************************************)
(* C7, amended.  The exclusion filter never aborts: on every input it      *)
(* reads every line up to the end of input and then terminates with exit   *)
(* status 0; a malformed line (that fits the buffer) yields no output and  *)
(* does not stop the lines after it from being processed, and it yields a  *)
(* warning if and only if it passes the pattern test.                      *)
(***************************************************************************)
C7_Terminates == <>(pc = "done") /\ []NeverAborts

C7_Witness ==
    /\ pc = "done" /\ exit_code = 0 /\ opts.pattern = NULL
    /\ input = <<Append(L_invalid, NL), Append(R_dev, NL)>>
    /\ warnings = <<<<"n", "a", "m", "e">>>>
    /\ out = <<R_dev>>

(***************************************************************************)
(* C8.  The set of existing refs is complete (one full enumeration of the  *)
(* local refs) before the first line is read, and reading lines does not   *)
(* change it: writing a line does not add its token.  So equal lines get   *)
(* equal decisions wherever they stand in the input, and a name that is    *)
(* written once is written at each of its occurrences.                     *)
(***************************************************************************)
ExistingRefSetBuilt ==
    /\ log # <<>> => todo = <<>> /\ pc \in {"exclude", "done"}
    /\ (pc = "exclude" /\ todo = <<>>) => existing_refs = LocalRefNames
    /\ \A i, j \in 1..Len(input) :
          (LineDone(i) /\ LineDone(j) /\ Content(i) = Content(j)) =>
              (EmittedLine(i) <=> EmittedLine(j))

ExistingRefSetKept ==
    (pc = "exclude" /\ todo = <<>> /\ pc' = "exclude") =>
        existing_refs' = existing_refs

C8_ExistingRefSet == []ExistingRefSetBuilt /\ [][ExistingRefSetKept]_vars

C8_Witness ==
    /\ pc = "exclude" /\ stdin = <<>>
    /\ local_refs = {R_main, R_v1} /\ existing_refs = {R_main, R_v1}
    /\ input = <<Append(R_dev, NL), Append(R_dev, NL)>>
    /\ out = <<R_dev, R_dev>>

(***************************************************************************)
(* C10.  As claimed: every input line of at most 1024 bytes is handled as  *)
(* exactly one record.                                                     *)
(***************************************************************************)
C10_AsClaimed ==
    \A i \in 1..Len(input) :
        (LineDone(i) /\ Len(input[i]) <= BufSize) =>
            Cardinality(RecordsOf(i)) = 1

(***************************************************************************)
(* C10, amended.  Every input line of at most 1023 bytes, its terminator   *)
(* counted, is handled as exactly one record: one decision, at most one    *)
(* output line and at most one warning.  Only longer lines are read in     *)
(* pieces of at most 1023 bytes that make up the line, and each piece is   *)
(* filtered as if it were a line.                                          *)
(***************************************************************************)
C10_LineBuffer ==
    /\ \A k \in 1..Len(log) :
          /\ Len(log[k].buf) \in 1..(BufSize - 1)
          /\ ~(log[k].emitted /\ log[k].warned)
          /\ log[k].emitted <=> ShouldEmit(RecordText(k))
          /\ log[k].warned <=> ShouldWarn(RecordText(k))
    /\ Len(out) = Cardinality({k \in 1..Len(log) : log[k].emitted})
    /\ Len(warnings) = Cardinality({k \in 1..Len(log) : log[k].warned})
    /\ \A i \in 1..Len(input) :
          LineDone(i) =>
              LET ks == RecordsOf(i)
                  first == CHOOSE k \in ks : \A j \in ks : k <= j
              IN  /\ ks # {}
                  /\ ks = first..(first + Cardinality(ks) - 1)
                  /\ Concat([n \in 1..Cardinality(ks) |-> log[first + n - 1].buf])
                       = input[i]
                  /\ Len(input[i]) <= BufSize - 1 <=> Cardinality(ks) = 1

C10_Witness ==
    /\ pc = "done"
    /\ input = <<Append(Pad(BufSize - 1), NL), Append(Pad(BufSize - 2), NL)>>
    /\ Len(log) = 3
    /\ log[2].buf = <<NL>> /\ log[2].warned
    /\ out = <<Pad(BufSize - 1), Pad(BufSize - 2)>>

====
